---- MODULE Spec2Model ----
(***************************************************************************)
(* Sealed-bid auction platform: the auctions / bids / notifications tables *)
(* with their row-level-security policies and triggers (supabase           *)
(* migrations), and the auction detail page that submits bids.             *)
(*                                                                         *)
(* Time is the value of now(): one value per transaction.  A statement on  *)
(* public.auctions runs its AFTER ROW triggers inside the statement's      *)
(* transaction; the trigger functions are SECURITY INVOKER, so the UPDATE  *)
(* they issue is subject to the caller's row-level security.  The nested   *)
(* UPDATE of check_auction_status re-fires both triggers; in Spec and     *)
(* ViewerSpec the committed row is taken where the re-firing no longer     *)
(* changes it (now() is fixed within the transaction, so one application   *)
(* of the CASE is idempotent).  CascadeSpec follows the nested trigger     *)
(* calls of one statement one by one, CreateSpec the two requests of       *)
(* CreateAuction.handleSubmit, and MountSpec the effect of the             *)
(* AuctionDetail page with its fetches and the subscription service.       *)
(***************************************************************************)
EXTENDS Integers, Sequences, FiniteSets, Bags, TLC

VARIABLES now, products, auctions, bids, inflight, notifications,
          page, channels, wal, lastDelivered,
          txn, create, websocketService, effect, fetches, delivered

vars == <<now, products, auctions, bids, inflight, notifications,
          page, channels, wal, lastDelivered,
          txn, create, websocketService, effect, fetches, delivered>>

(* the tables of the database, and the state of one AuctionDetail page with *)
(* its two subscriptions                                                    *)
db == <<now, products, auctions, bids, inflight, notifications>>

viewer == <<page, channels, wal, lastDelivered>>

(* the operations followed step by step: txn, one statement on             *)
(* public.auctions with the trigger calls it has open; create, the         *)
(* position of CreateAuction.handleSubmit; websocketService, the singleton *)
(* of lib/websocket.ts; effect, fetches and delivered, the effect of the   *)
(* AuctionDetail page, its fetchAuctionDetails calls under way and the     *)
(* highest amount its bid callback has been called with                    *)
stepwise == <<txn, create, websocketService, effect, fetches, delivered>>

(* ---------------------------- bounds ---------------------------------- *)
MaxTime == 1
MaxAuctions == 2
MaxBids == 2
MaxAmount == 3
MaxSettlements == 2
MaxInflight == 1
MaxEvents == 4
MaxDepth == 3
MaxProducts == 3
MaxFetches == 2

Users == {"u1", "u2"}
Sellers == {"u1"}
Durations == {1, 3}
StartPrices == {1}
ViewerStartPrices == {2}

NoUser == "null"
NoBid == 0
NoError == "null"

(* no statement under way, no submission under way, the service as         *)
(* constructed (channels = new Map()), no page mounted                     *)
NoTxn ==
    [role |-> "none", stack |-> <<>>, outcome |-> "idle",
     saved |-> [auctions |-> <<>>, notifications |-> EmptyBag]]
NoCreate ==
    [pc |-> "idle", user |-> NoUser, product |-> 0, start |-> 0, error |-> NoError]
NewWebSocketService == [channels |-> {}, joined |-> {}]
NoEffect == [mounted |-> FALSE, pending |-> FALSE, cleanup |-> FALSE]

(* useParams().id of the AuctionDetail page that is followed *)
PageId == 1

ROLE_AUTHENTICATED == "authenticated"
ROLE_OWNER == "owner"

auction_status == {"draft", "active", "ended", "cancelled"}

(* ---------------------------- helpers --------------------------------- *)
Range(s) == {s[i] : i \in DOMAIN s}

AuctionIds == DOMAIN auctions

BidsOf(a) == {b \in Range(bids) : b.auction_id = a}

Max(S) == CHOOSE x \in S : \A y \in S : y <= x

(* CREATE TABLE public.auctions: a new row, winner fields NULL *)
AuctionRow(p, price, start, end, st) ==
    [product_id |-> p, start_price |-> price, start_time |-> start,
     end_time |-> end, status |-> st, winner_id |-> NoUser,
     winning_bid_id |-> NoBid]

(* CREATE TABLE public.bids: created_at DEFAULT now() *)
BidRow(i, a, u, amt, t) ==
    [id |-> i, auction_id |-> a, bidder_id |-> u, amount |-> amt,
     created_at |-> t]

(* ------------------------ row-level security --------------------------- *)
(* No UPDATE policy exists on public.auctions: under RLS an UPDATE by the  *)
(* authenticated role matches no row; the table owner bypasses RLS.        *)
CanUpdateAuctions(role) == role = ROLE_OWNER

(* the policy without its end_time test *)
CanCreateBid_NoDeadline(uid, row, t) ==
    /\ uid = row.bidder_id
    /\ \E a \in AuctionIds :
          /\ a = row.auction_id
          /\ auctions[a].status = "active"

(* the policy without its status test *)
CanCreateBid_AnyStatus(uid, row, t) ==
    /\ uid = row.bidder_id
    /\ \E a \in AuctionIds :
          /\ a = row.auction_id
          /\ auctions[a].end_time > t

(* policy "Users can create bids" WITH CHECK *)
CanCreateBid(uid, row, t) ==
    /\ uid = row.bidder_id
    /\ \E a \in AuctionIds :
          /\ a = row.auction_id
          /\ auctions[a].status = "active"
          /\ auctions[a].end_time > t

(* a policy USING (true), as auctions and products have for SELECT *)
CanViewBid_Anyone(uid, row) == TRUE

(* policy "Users can view own bids" USING *)
CanViewBid(uid, row) == uid = row.bidder_id

(* supabase.from('bids').select(): the rows of bids user u can read *)
SelectBids(u) == {b \in Range(bids) : CanViewBid(u, b)}

(* the signed-in users that may hold a subscription: the bidders and one    *)
(* user who only watches                                                    *)
Viewers == Users \cup {"u3"}

(* the postgres_changes payload of an INSERT on public.bids: the new row *)
BidInsertPayload(row) == [eventType |-> "INSERT", new |-> row]

(* the subscription delivering every INSERT on the auction's bids *)
BidEventsFor_AllRows(s, a, row) ==
    IF row.auction_id = a THEN {BidInsertPayload(row)} ELSE {}

(* subscribeToAuction(a, onUpdate) held by user s: the events the INSERT of *)
(* row delivers to onUpdate (filter auction_id=eq.a; a change is sent to a  *)
(* subscriber only if the SELECT policy lets that user read the row)        *)
BidEventsFor(s, a, row) ==
    IF row.auction_id = a /\ CanViewBid(s, row)
    THEN {BidInsertPayload(row)} ELSE {}

(* a policy FOR UPDATE USING (auth.uid() = bidder_id), as bids has for SELECT *)
CanUpdateBid_OwnRows(uid, row) == uid = row.bidder_id

(* public.bids has row-level security enabled and no policy FOR UPDATE and  *)
(* none FOR DELETE: such a statement of an authenticated user sees no row   *)
CanUpdateBid(uid, row) == FALSE

CanDeleteBid(uid, row) == FALSE

(* ----------------------------- triggers -------------------------------- *)
(* the CASE with now() > start_time in its second branch *)
check_auction_status_StrictStart(row, t) ==
    [row EXCEPT !.status =
        IF t >= row.end_time THEN "ended"
        ELSE IF t > row.start_time THEN "active"
        ELSE row.status]

(* check_auction_status: the CASE of its UPDATE *)
check_auction_status(row, t) ==
    [row EXCEPT !.status =
        IF t >= row.end_time THEN "ended"
        ELSE IF t >= row.start_time THEN "active"
        ELSE row.status]

(* the IF without its test of OLD.status *)
SettlementFires_AnyOld(old, new) == new.status = "ended"

(* determine_auction_winner: IF NEW.status = 'ended' AND OLD.status = 'active' *)
SettlementFires(old, new) == new.status = "ended" /\ old.status = "active"

(* the SELECT ordered by amount ASC *)
WinningBids_Ascending(a) ==
    {b \in BidsOf(a) : \A c \in BidsOf(a) : b.amount <= c.amount}

(* SELECT * FROM bids WHERE auction_id = NEW.id ORDER BY amount DESC LIMIT 1: *)
(* any row of maximal amount (ORDER BY names no further key)                 *)
WinningBids(a) ==
    {b \in BidsOf(a) : \A c \in BidsOf(a) : c.amount <= b.amount}

(* the SELECT without its WHERE auction_id = NEW.id *)
WinnerChoices_AnyAuction(a) ==
    IF bids = <<>> THEN {NoBid}
    ELSE {b.id : b \in {c \in Range(bids) : \A d \in Range(bids) : d.amount <= c.amount}}

WinnerChoices(a) == IF BidsOf(a) = {} THEN {NoBid} ELSE {b.id : b \in WinningBids(a)}

BidById(i) == CHOOSE b \in Range(bids) : b.id = i

(* the two INSERT INTO public.notifications of determine_auction_winner *)
WinnerNotification(row, w) ==
    [user_id |-> w.bidder_id, title |-> "Auction Won!",
     product_id |-> row.product_id, amount |-> 0]

SellerNotification(row, w) ==
    [user_id |-> products[row.product_id], title |-> "Auction Ended",
     product_id |-> 0, amount |-> w.amount]

(* determine_auction_winner for one UPDATE (old -> new); wid is the id of   *)
(* the row its SELECT returned, NoBid when it returned none                 *)
determine_auction_winner(old, new, wid) ==
    IF SettlementFires(old, new) /\ wid # NoBid
    THEN [row |-> [new EXCEPT !.winner_id = BidById(wid).bidder_id,
                              !.winning_bid_id = wid],
          notes |-> SetToBag({WinnerNotification(new, BidById(wid)),
                              SellerNotification(new, BidById(wid))}),
          wrote |-> TRUE]
    ELSE [row |-> new, notes |-> EmptyBag, wrote |-> FALSE]

(* the payload of a postgres_changes UPDATE event on public.auctions, as    *)
(* subscribeToAuctionStatus receives one for every row UPDATE               *)
Change(a, old, new) ==
    [id |-> a, old_status |-> old.status, new_status |-> new.status,
     winner_id |-> new.winner_id, winning_bid_id |-> new.winning_bid_id]

(* The AFTER UPDATE triggers of one UPDATE pre -> post on auction a, fired  *)
(* in name order: determine_winner_trigger, then update_auction_status,     *)
(* whose own UPDATE fires determine_winner_trigger again.                   *)
AfterUpdate(a, pre, post, wid, t) ==
    LET d1 == determine_auction_winner(pre, post, wid)
        r2 == check_auction_status(d1.row, t)
        d2 == determine_auction_winner(d1.row, r2, wid)
    IN  [row |-> d2.row,
         notes |-> d1.notes (+) d2.notes,
         evs |-> {Change(a, pre, post), Change(a, d1.row, r2)}
                 \cup (IF d1.wrote THEN {Change(a, post, d1.row)} ELSE {})
                 \cup (IF d2.wrote THEN {Change(a, r2, d2.row)} ELSE {})]

(* The AFTER INSERT trigger update_auction_status of one INSERT of row.     *)
AfterInsert(a, row, role, t) ==
    IF CanUpdateAuctions(role)
    THEN LET r2 == check_auction_status(row, t)
             d2 == determine_auction_winner(row, r2, NoBid)
         IN  [row |-> d2.row, evs |-> {Change(a, row, r2)}]
    ELSE [row |-> row, evs |-> {}]

(* --------------------------- the tables -------------------------------- *)
(* now: the value of now(); products[p]: seller_id of product p; auctions:  *)
(* the rows of public.auctions by id; bids: the committed rows of           *)
(* public.bids in commit order; inflight: bid rows inserted by transactions *)
(* that have not committed; notifications: the rows of public.notifications *)
TypeOK ==
    /\ now \in Nat
    /\ products \in Seq(Users)
    /\ \A a \in AuctionIds :
          /\ auctions[a].product_id \in DOMAIN products
          /\ auctions[a].status \in auction_status
          /\ auctions[a].winner_id \in Users \cup {NoUser}
          /\ auctions[a].winning_bid_id \in 0..MaxBids
    /\ \A b \in Range(bids) \cup inflight :
          /\ b.auction_id \in AuctionIds
          /\ b.bidder_id \in Users
          /\ b.amount \in 1..MaxAmount
    /\ IsABag(notifications)
    /\ page.user \in Users \cup {NoUser}
    /\ Len(page.auction) <= 1
    /\ Len(channels.bids) + Len(channels.status) <= MaxEvents
    /\ wal \in 0..MaxEvents
    /\ lastDelivered \in 0..MaxEvents
    /\ Len(txn.stack) <= MaxDepth
    /\ create.pc \in {"idle", "auction"}
    /\ Cardinality(fetches) <= MaxFetches
    /\ delivered \in 0..MaxAmount

(* ------------------------------ Init ----------------------------------- *)
Init ==
    /\ now = 0
    /\ products = <<>>
    /\ auctions = <<>>
    /\ bids = <<>>
    /\ inflight = {}
    /\ notifications = EmptyBag
    /\ page = [user |-> NoUser, auction |-> <<>>, error |-> NoError]
    /\ channels = [bids |-> <<>>, status |-> <<>>]
    /\ wal = 0
    /\ lastDelivered = 0
    /\ txn = NoTxn
    /\ create = NoCreate
    /\ websocketService = NewWebSocketService
    /\ effect = NoEffect
    /\ fetches = {}
    /\ delivered = 0

(* ----------------------------- actions --------------------------------- *)
Tick ==
    /\ now < MaxTime
    /\ now' = now + 1
    /\ UNCHANGED <<products, auctions, bids, inflight, notifications>>

(* INSERT INTO products, then INSERT INTO auctions, by `role` *)
InsertAuction(u, price, start, end, st, role) ==
    /\ Len(auctions) < MaxAuctions
    /\ LET p == Len(products) + 1
           a == Len(auctions) + 1
           res == AfterInsert(a, AuctionRow(p, price, start, end, st), role, now)
       IN  /\ products' = Append(products, u)
           /\ auctions' = Append(auctions, res.row)
    /\ UNCHANGED <<now, bids, inflight, notifications>>

(* CreateAuction.handleSubmit *)
handleSubmit(u, price, duration) ==
    InsertAuction(u, price, now, now + duration, "active", ROLE_AUTHENTICATED)

(* an INSERT by the table owner, status left to its DEFAULT 'draft' *)
InsertDraft(u, price, start, duration) ==
    InsertAuction(u, price, start, start + duration, "draft", ROLE_OWNER)

(* UPDATE public.auctions SET status = st WHERE id = a, by the table owner; *)
(* wid is the row the settlement's SELECT returns if it runs               *)
UpdateAuctionWith(a, st, wid) ==
    /\ a \in AuctionIds
    /\ BagCardinality(notifications) < 2 * MaxSettlements
    /\ wid \in WinnerChoices(a)
    /\ LET pre == auctions[a]
           post == [pre EXCEPT !.status = st]
           res == AfterUpdate(a, pre, post, wid, now)
       IN  /\ auctions' = [auctions EXCEPT ![a] = res.row]
           /\ notifications' = notifications (+) res.notes
    /\ UNCHANGED <<now, products, bids, inflight>>

UpdateAuction(a, st) == \E wid \in 0..MaxBids : UpdateAuctionWith(a, st, wid)

(* fetchAuctionDetails: the auction row and the top bid the user can read *)
HighestVisible(u, a) ==
    LET mine == {b.amount : b \in {c \in BidsOf(a) : CanViewBid(u, c)}}
    IN  IF mine # {} THEN Max(mine) ELSE auctions[a].start_price

fetchAuctionDetails(u, a) ==
    [id |-> a, start_price |-> auctions[a].start_price,
     end_time |-> auctions[a].end_time, status |-> auctions[a].status,
     highest_bid |-> HighestVisible(u, a)]

(* handleBidSubmit: bidAmount <= (auction.highest_bid || auction.start_price) *)
BidTooLow(auction, amt) ==
    amt <= (IF auction.highest_bid # 0 THEN auction.highest_bid
            ELSE auction.start_price)

(* handleBidSubmit on the page of auction a, whose state is its last fetch, *)
(* up to the INSERT statement: the row passes the policy and waits for its  *)
(* transaction to commit                                                    *)
handleBidSubmit(u, a, amt) ==
    /\ a \in AuctionIds
    /\ ~BidTooLow(fetchAuctionDetails(u, a), amt)
    /\ Len(bids) + Cardinality(inflight) < MaxBids
    /\ Cardinality(inflight) < MaxInflight
    /\ LET row == BidRow(Len(bids) + Cardinality(inflight) + 1, a, u, amt, now)
       IN  /\ CanCreateBid(u, row, now)
           /\ inflight' = inflight \cup {row}
    /\ UNCHANGED <<now, products, auctions, bids, notifications>>

(* INSERT INTO public.bids (auction_id, bidder_id, amount) sent by user u   *)
(* through the table's REST endpoint, not from the page's form: the policy  *)
(* "Users can create bids" is the only test the row passes                  *)
InsertBid(u, a, amt) ==
    /\ a \in AuctionIds
    /\ Len(bids) + Cardinality(inflight) < MaxBids
    /\ Cardinality(inflight) < MaxInflight
    /\ LET row == BidRow(Len(bids) + Cardinality(inflight) + 1, a, u, amt, now)
       IN  /\ CanCreateBid(u, row, now)
           /\ inflight' = inflight \cup {row}
    /\ UNCHANGED <<now, products, auctions, bids, notifications>>

(* the INSERT's transaction commits *)
CommitBid(row) ==
    /\ row \in inflight
    /\ inflight' = inflight \ {row}
    /\ bids' = Append(bids, row)
    /\ UNCHANGED <<now, products, auctions, notifications>>

(* UPDATE public.bids SET amount = amt WHERE id = i, sent by user u through *)
(* the table's REST endpoint: the rows the policies let u update change     *)
UpdateBid(u, i, amt) ==
    /\ \E b \in Range(bids) : b.id = i
    /\ bids' = [j \in DOMAIN bids |->
                  IF bids[j].id = i /\ CanUpdateBid(u, bids[j])
                  THEN [bids[j] EXCEPT !.amount = amt] ELSE bids[j]]
    /\ UNCHANGED <<now, products, auctions, inflight, notifications>>

(* DELETE FROM public.bids WHERE id = i, sent by user u *)
DeleteBid(u, i) ==
    /\ \E b \in Range(bids) : b.id = i
    /\ bids' = SelectSeq(bids, LAMBDA b : ~(b.id = i /\ CanDeleteBid(u, b)))
    /\ UNCHANGED <<now, products, auctions, inflight, notifications>>

Next ==
    \/ Tick /\ UNCHANGED <<viewer, stepwise>>
    \/ \E u \in Sellers, p \in StartPrices, d \in Durations :
          handleSubmit(u, p, d) /\ UNCHANGED <<viewer, stepwise>>
    \/ \E u \in Sellers, p \in StartPrices, s \in {now, now + 1}, d \in Durations :
          InsertDraft(u, p, s, d) /\ UNCHANGED <<viewer, stepwise>>
    \/ \E a \in 1..MaxAuctions, st \in auction_status :
          UpdateAuction(a, st) /\ UNCHANGED <<viewer, stepwise>>
    \/ \E u \in Users, a \in 1..MaxAuctions, amt \in 1..MaxAmount :
          handleBidSubmit(u, a, amt) /\ UNCHANGED <<viewer, stepwise>>
    \/ \E row \in inflight : CommitBid(row) /\ UNCHANGED <<viewer, stepwise>>
    \/ \E u \in Users, i \in 1..MaxBids, amt \in 1..MaxAmount :
          UpdateBid(u, i, amt) /\ UNCHANGED <<viewer, stepwise>>
    \/ \E u \in Users, i \in 1..MaxBids : DeleteBid(u, i) /\ UNCHANGED <<viewer, stepwise>>

Spec == Init /\ [][Next]_vars

(* Time passes and a started INSERT transaction commits; no statement on    *)
(* public.auctions is ever due: the migrations schedule no job and the      *)
(* pages set no timer, so a write of an auction row is left to its callers. *)
LiveSpec ==
    /\ Init /\ [][Next]_vars
    /\ WF_vars(Tick /\ UNCHANGED <<viewer, stepwise>>)
    /\ WF_vars(\E row \in inflight : CommitBid(row) /\ UNCHANGED <<viewer, stepwise>>)

(* ------------------- the AuctionDetail page and its channels ------------- *)
(* page: the state of one mounted AuctionDetail page (user of useAuth, the  *)
(* auction of useState, null as the empty sequence, and error); channels:   *)
(* the events queued for the page on the channel of subscribeToAuction      *)
(* (bids) and on the channel of subscribeToAuctionStatus (status); wal: the *)
(* number of events published to the page so far, in commit order;          *)
(* lastDelivered: the number of the event the page handled last.            *)

(* the UPDATE events of one statement on auction a in the order of its row  *)
(* versions: the statement's own, the winner write, the status write of     *)
(* check_auction_status and the winner write that one fires                 *)
StatusEvents(a, pre, post, wid, t) ==
    LET d1 == determine_auction_winner(pre, post, wid)
        r2 == check_auction_status(d1.row, t)
        d2 == determine_auction_winner(d1.row, r2, wid)
    IN  <<Change(a, pre, post)>>
        \o (IF d1.wrote THEN <<Change(a, post, d1.row)>> ELSE <<>>)
        \o <<Change(a, d1.row, r2)>>
        \o (IF d2.wrote THEN <<Change(a, r2, d2.row)>> ELSE <<>>)

(* the events of es numbered from n + 1 on, as queued on a channel *)
Numbered(es, n) == [i \in DOMAIN es |-> [seq |-> n + i, payload |-> es[i]]]

(* subscribeToAuctionStatus(PageId, ...): filter id=eq.PageId, event UPDATE *)
StatusEventsFor(a, es) == IF a = PageId THEN es ELSE <<>>

(* the state after the page of user u on an existing auction has mounted:   *)
(* both channels subscribed, fetchAuctionDetails done                       *)
Mounted(u) ==
    /\ page = [user |-> u, auction |-> <<fetchAuctionDetails(u, PageId)>>,
               error |-> NoError]
    /\ channels = [bids |-> <<>>, status |-> <<>>]
    /\ wal = 0
    /\ lastDelivered = 0

(* auction PageId exists, created by CreateAuction.handleSubmit at time 0   *)
(* or inserted by the owner as a draft that starts at time 1, without bids; *)
(* a user has opened its page                                               *)
ViewerInit ==
    /\ now = 0
    /\ products = <<"u1">>
    /\ \E d \in Durations, p \in ViewerStartPrices :
          auctions \in {<<AuctionRow(1, p, 0, d, "active")>>,
                        <<AuctionRow(1, p, 1, 1 + d, "draft")>>}
    /\ bids = <<>>
    /\ inflight = {}
    /\ notifications = EmptyBag
    /\ \E u \in Users : Mounted(u)
    /\ txn = NoTxn
    /\ create = NoCreate
    /\ websocketService = NewWebSocketService
    /\ effect = NoEffect
    /\ fetches = {}
    /\ delivered = 0

(* UPDATE public.auctions SET status = st WHERE id = a by the owner, and    *)
(* the publication of its UPDATE events to the page                         *)
UpdateAuctionPublished(a, st) ==
    \E wid \in 0..MaxBids :
        /\ UpdateAuctionWith(a, st, wid)
        /\ LET es == StatusEventsFor(a,
                        StatusEvents(a, auctions[a],
                                     [auctions[a] EXCEPT !.status = st], wid, now))
           IN  /\ wal + Len(es) <= MaxEvents
               /\ channels' = [channels EXCEPT !.status = @ \o Numbered(es, wal)]
               /\ wal' = wal + Len(es)
        /\ UNCHANGED <<page, lastDelivered>>

(* the form of the page: rendered while no error is shown, the auction is   *)
(* loaded and isEnded (end_time < new Date()) is false                      *)
FormShown ==
    /\ page.error = NoError
    /\ page.auction # <<>>
    /\ ~(page.auction[1].end_time < now)

(* handleBidSubmit of the page with bidAmount = amt: the amount test on the *)
(* page's auction, then the INSERT, whose error is shown                    *)
handleBidSubmitForm(amt) ==
    /\ page.user # NoUser
    /\ FormShown
    /\ LET row == BidRow(Len(bids) + Cardinality(inflight) + 1, PageId,
                         page.user, amt, now)
       IN  IF BidTooLow(page.auction[1], amt)
           THEN /\ page' = [page EXCEPT !.error = "Bid amount must be higher than the current highest bid"]
                /\ UNCHANGED inflight
           ELSE IF CanCreateBid(page.user, row, now)
           THEN /\ Len(bids) + Cardinality(inflight) < MaxBids
                /\ Cardinality(inflight) < MaxInflight
                /\ inflight' = inflight \cup {row}
                /\ UNCHANGED page
           ELSE /\ page' = [page EXCEPT !.error = "new row violates row-level security policy"]
                /\ UNCHANGED inflight
    /\ UNCHANGED <<now, products, auctions, bids, notifications,
                   channels, wal, lastDelivered>>

(* the INSERT's transaction commits: its event is published to the page if  *)
(* the page's user may read the row, and for the page's own INSERT          *)
(* handleBidSubmit goes on: fetchAuctionDetails, setError(null)             *)
CommitBidPublished(row) ==
    /\ CommitBid(row)
    /\ LET es == BidEventsFor(page.user, PageId, row)
       IN  /\ wal + Cardinality(es) <= MaxEvents
           /\ channels' = [channels EXCEPT !.bids =
                             IF es = {} THEN @
                             ELSE Append(@, [seq |-> wal + 1, payload |-> BidInsertPayload(row)])]
           /\ wal' = wal + Cardinality(es)
    /\ \E u \in Users :
          /\ u = page.user
          /\ page' = IF row.bidder_id = u
                     THEN [page EXCEPT
                             !.auction = <<fetchAuctionDetails(u, PageId)'>>,
                             !.error = NoError]
                     ELSE page
    /\ UNCHANGED lastDelivered

(* the bid callback of the page's effect: setAuction(prev => ...) *)
handleBidInsert(pg, payload) ==
    IF payload.eventType = "INSERT" /\ pg.auction # <<>>
    THEN [pg EXCEPT !.auction[1].highest_bid = Max({payload.new.amount, @})]
    ELSE pg

(* a callback that sets the status from the page's own state *)
handleStatusChange_Toggle(pg, payload) ==
    IF pg.auction # <<>>
    THEN [pg EXCEPT !.auction[1].status =
             IF @ = "active" THEN "ended" ELSE "active"]
    ELSE pg

(* the status callback of the page's effect: only old.status = 'active' and *)
(* new.status = 'ended' changes the page (the browser notification it      *)
(* shows is no state)                                                       *)
handleStatusChange(pg, payload) ==
    IF /\ payload.old_status = "active"
       /\ payload.new_status = "ended"
       /\ pg.auction # <<>>
    THEN [pg EXCEPT !.auction[1].status = "ended"]
    ELSE pg

(* the callback of subscribeToAuction: the next event of the bids channel *)
onUpdate ==
    /\ channels.bids # <<>>
    /\ LET e == Head(channels.bids)
       IN  /\ page' = handleBidInsert(page, e.payload)
           /\ lastDelivered' = e.seq
    /\ channels' = [channels EXCEPT !.bids = Tail(@)]
    /\ UNCHANGED <<db, wal>>

(* the callback of subscribeToAuctionStatus: the next event of the status   *)
(* channel                                                                  *)
onStatusChange ==
    /\ channels.status # <<>>
    /\ LET e == Head(channels.status)
       IN  /\ page' = handleStatusChange(page, e.payload)
           /\ lastDelivered' = e.seq
    /\ channels' = [channels EXCEPT !.status = Tail(@)]
    /\ UNCHANGED <<db, wal>>

ViewerNext ==
    \/ Tick /\ UNCHANGED <<viewer, stepwise>>
    \/ \E st \in auction_status :
          UpdateAuctionPublished(PageId, st) /\ UNCHANGED stepwise
    \/ \E u \in Users, amt \in 1..MaxAmount :
          u # page.user /\ handleBidSubmit(u, PageId, amt) /\ UNCHANGED <<viewer, stepwise>>
    \/ \E amt \in 1..MaxAmount : handleBidSubmitForm(amt) /\ UNCHANGED stepwise
    \/ \E u \in Users, amt \in 1..MaxAmount :
          u # page.user /\ InsertBid(u, PageId, amt) /\ UNCHANGED <<viewer, stepwise>>
    \/ \E row \in inflight : CommitBidPublished(row) /\ UNCHANGED stepwise
    \/ onUpdate /\ UNCHANGED stepwise
    \/ onStatusChange /\ UNCHANGED stepwise

ViewerSpec == ViewerInit /\ [][ViewerNext]_vars

(* ------------- one statement on public.auctions, step by step ---------- *)
(* txn.stack holds the row updates whose AFTER ROW triggers are running or  *)
(* still to run, the innermost last; an UPDATE issued inside a trigger      *)
(* function fires its own triggers before the function goes on. MaxDepth    *)
(* stands for the nesting max_stack_depth allows.                           *)

NoSaved == NoTxn.saved

(* the triggers of one row change in name order: determine_winner_trigger   *)
(* (AFTER UPDATE) before update_auction_status (AFTER INSERT OR UPDATE)     *)
Frame(a, op, old, new) ==
    [id |-> a, op |-> op, old |-> old, new |-> new, wid |-> NoBid,
     pc |-> IF op = "UPDATE" THEN "determine_winner_trigger"
            ELSE "update_auction_status"]

Top == txn.stack[Len(txn.stack)]

(* ERROR: stack depth limit exceeded: the statement and all its trigger     *)
(* writes are rolled back                                                   *)
Abort ==
    /\ txn' = [txn EXCEPT !.stack = <<>>, !.saved = NoSaved,
                          !.outcome = "stack depth limit exceeded"]
    /\ auctions' = txn.saved.auctions
    /\ notifications' = txn.saved.notifications

(* UPDATE public.auctions SET ... WHERE id = a inside a trigger function of *)
(* the innermost frame, which goes on at pcAfter when the UPDATE returns    *)
NestedUpdate(a, row, wid, pcAfter) ==
    IF Len(txn.stack) < MaxDepth
    THEN /\ auctions' = [auctions EXCEPT ![a] = row]
         /\ txn' = [txn EXCEPT !.stack =
                       Append([@ EXCEPT ![Len(@)].pc = pcAfter,
                                        ![Len(@)].wid = wid],
                              Frame(a, "UPDATE", auctions[a], row))]
         /\ UNCHANGED notifications
    ELSE Abort

(* INSERT INTO public.auctions by `role`, for the product that has none yet *)
BeginInsert(role, price, start, duration, st) ==
    /\ txn.outcome # "running"
    /\ Len(auctions) < MaxAuctions
    /\ Len(auctions) < Len(products)
    /\ LET a == Len(auctions) + 1
           row == AuctionRow(a, price, start, start + duration, st)
       IN  /\ auctions' = Append(auctions, row)
           /\ txn' = [role |-> role, stack |-> <<Frame(a, "INSERT", row, row)>>,
                      saved |-> [auctions |-> auctions,
                                 notifications |-> notifications],
                      outcome |-> "running"]
    /\ UNCHANGED <<now, products, bids, inflight, notifications>>

(* UPDATE public.auctions SET status = st WHERE id = a by `role`: without a *)
(* policy FOR UPDATE the statement of an authenticated user changes no row  *)
BeginUpdate(role, a, st) ==
    /\ txn.outcome # "running"
    /\ a \in AuctionIds
    /\ LET row == [auctions[a] EXCEPT !.status = st]
           saved == [auctions |-> auctions, notifications |-> notifications]
       IN  IF CanUpdateAuctions(role)
           THEN /\ auctions' = [auctions EXCEPT ![a] = row]
                /\ txn' = [role |-> role, saved |-> saved, outcome |-> "running",
                           stack |-> <<Frame(a, "UPDATE", auctions[a], row)>>]
           ELSE /\ UNCHANGED auctions
                /\ txn' = [role |-> role, saved |-> saved, outcome |-> "running",
                           stack |-> <<>>]
    /\ UNCHANGED <<now, products, bids, inflight, notifications>>

(* the next step of the innermost trigger call *)
FireTrigger ==
    /\ txn.outcome = "running"
    /\ txn.stack # <<>>
    /\ LET f == Top
           cur == auctions[f.id]
           SetPc(pc) == [txn EXCEPT !.stack[Len(txn.stack)].pc = pc]
       IN  CASE f.pc = "determine_winner_trigger" ->
                  \E wid \in WinnerChoices(f.id) :
                     LET d == determine_auction_winner(f.old, f.new, wid)
                     IN  IF d.wrote /\ CanUpdateAuctions(txn.role)
                         THEN NestedUpdate(f.id,
                                 [cur EXCEPT !.winner_id = d.row.winner_id,
                                             !.winning_bid_id = d.row.winning_bid_id],
                                 wid, "notify")
                         ELSE /\ txn' = SetPc(IF d.wrote THEN "notify"
                                              ELSE "update_auction_status")
                              /\ UNCHANGED <<auctions, notifications>>
             [] f.pc = "notify" ->
                  /\ notifications' = notifications (+)
                        determine_auction_winner(f.old, f.new, f.wid).notes
                  /\ txn' = SetPc("update_auction_status")
                  /\ UNCHANGED auctions
             [] f.pc = "update_auction_status" ->
                  IF CanUpdateAuctions(txn.role)
                  THEN NestedUpdate(f.id, check_auction_status(cur, now),
                                    f.wid, "return")
                  ELSE /\ txn' = SetPc("return")
                       /\ UNCHANGED <<auctions, notifications>>
             [] f.pc = "return" ->
                  /\ txn' = [txn EXCEPT !.stack = SubSeq(@, 1, Len(@) - 1)]
                  /\ UNCHANGED <<auctions, notifications>>
    /\ UNCHANGED <<now, products, bids, inflight>>

(* no trigger call is open: the statement's transaction commits *)
CommitTxn ==
    /\ txn.outcome = "running"
    /\ txn.stack = <<>>
    /\ txn' = [txn EXCEPT !.outcome = "committed", !.saved = NoSaved]
    /\ UNCHANGED db

StatementIdle == txn.outcome # "running"

(* two products of a seller, no auction yet *)
CascadeInit ==
    /\ now = 0
    /\ products = <<"u1", "u1">>
    /\ auctions = <<>>
    /\ bids = <<>>
    /\ inflight = {}
    /\ notifications = EmptyBag
    /\ page = [user |-> NoUser, auction |-> <<>>, error |-> NoError]
    /\ channels = [bids |-> <<>>, status |-> <<>>]
    /\ wal = 0
    /\ lastDelivered = 0
    /\ txn = NoTxn
    /\ create = NoCreate
    /\ websocketService = NewWebSocketService
    /\ effect = NoEffect
    /\ fetches = {}
    /\ delivered = 0

cascadeRest == <<viewer, create, websocketService, effect, fetches, delivered>>

CascadeNext ==
    \/ StatementIdle /\ Tick /\ UNCHANGED <<viewer, stepwise>>
    \/ \E p \in StartPrices, d \in Durations :
          /\ BeginInsert(ROLE_AUTHENTICATED, p, now, d, "active")
          /\ UNCHANGED cascadeRest
    \/ \E p \in StartPrices, s \in {now, now + 1}, d \in Durations :
          /\ BeginInsert(ROLE_OWNER, p, s, d, "draft")
          /\ UNCHANGED cascadeRest
    \/ \E role \in {ROLE_AUTHENTICATED, ROLE_OWNER},
          a \in 1..MaxAuctions, st \in auction_status :
          BeginUpdate(role, a, st) /\ UNCHANGED cascadeRest
    \/ FireTrigger /\ UNCHANGED cascadeRest
    \/ CommitTxn /\ UNCHANGED cascadeRest
    \/ \E u \in Users, a \in 1..MaxAuctions, amt \in 1..MaxAmount :
          StatementIdle /\ handleBidSubmit(u, a, amt) /\ UNCHANGED <<viewer, stepwise>>
    \/ \E row \in inflight :
          StatementIdle /\ CommitBid(row) /\ UNCHANGED <<viewer, stepwise>>

CascadeSpec == CascadeInit /\ [][CascadeNext]_vars

(* --------------- CreateAuction.handleSubmit, step by step --------------- *)

(* the error of a supabase request: null, or the message of a request that  *)
(* did not succeed                                                          *)
RequestErrors == {NoError, "Failed to fetch"}

(* policy "Users can create products" WITH CHECK *)
CanCreateProduct(uid, seller_id) == uid = seller_id

(* policy "Sellers can create auctions" WITH CHECK *)
CanCreateAuction(uid, row) ==
    \E p \in DOMAIN products : p = row.product_id /\ products[p] = uid

(* handleSubmit of user u up to its first await: startTime = new Date(),    *)
(* then "1. Create product"; productError is thrown and shown               *)
CreateProduct(u, productError) ==
    /\ create.pc = "idle"
    /\ u # NoUser
    /\ IF productError = NoError /\ CanCreateProduct(u, u)
       THEN /\ Len(products) < MaxProducts
            /\ products' = Append(products, u)
            /\ create' = [pc |-> "auction", user |-> u,
                          product |-> Len(products) + 1, start |-> now,
                          error |-> NoError]
       ELSE /\ UNCHANGED products
            /\ create' = [NoCreate EXCEPT !.user = u, !.error =
                            IF productError # NoError THEN productError
                            ELSE "new row violates row-level security policy"]
    /\ UNCHANGED <<now, auctions, bids, inflight, notifications>>

(* handleSubmit after the product insert: "2. Create auction" with status   *)
(* 'active'; auctionError is thrown to the catch, which only calls setError *)
CreateAuction(price, duration, auctionError) ==
    /\ create.pc = "auction"
    /\ LET a == Len(auctions) + 1
           row == AuctionRow(create.product, price, create.start,
                             create.start + duration, "active")
       IN  IF auctionError = NoError /\ CanCreateAuction(create.user, row)
           THEN /\ Len(auctions) < MaxAuctions
                /\ auctions' = Append(auctions,
                                  AfterInsert(a, row, ROLE_AUTHENTICATED, now).row)
                /\ create' = [create EXCEPT !.pc = "idle"]
           ELSE /\ UNCHANGED auctions
                /\ create' = [create EXCEPT !.pc = "idle", !.error =
                                IF auctionError # NoError THEN auctionError
                                ELSE "new row violates row-level security policy"]
    /\ UNCHANGED <<now, products, bids, inflight, notifications>>

createRest == <<viewer, txn, websocketService, effect, fetches, delivered>>

CreateNext ==
    \/ Tick /\ UNCHANGED <<viewer, stepwise>>
    \/ \E u \in Users, e \in RequestErrors :
          CreateProduct(u, e) /\ UNCHANGED createRest
    \/ \E p \in StartPrices, d \in Durations, e \in RequestErrors :
          CreateAuction(p, d, e) /\ UNCHANGED createRest

CreateSpec == Init /\ [][CreateNext]_vars

(* ------------- the effect of the AuctionDetail page, step by step ------- *)
(* websocketService.channels is the Map of the service, a set of entries    *)
(* key -> topic with one entry per key; websocketService.joined holds the   *)
(* topics with a channel that was subscribe()d and not unsubscribe()d.      *)
(* effect.pending: a dependency of the effect differs from its value at the *)
(* last run (auction?.product.images is compared by identity, and every     *)
(* fetch result carries a new array); effect.cleanup: a run has returned    *)
(* its cleanup function. fetches: the fetchAuctionDetails calls under way,  *)
(* "sent" before the server has read the rows, "read" with the result on    *)
(* its way back.                                                            *)

(* a template string `${prefix}${auctionId}`; the bare auctionId has the    *)
(* empty prefix                                                             *)
Key(prefix, a) == <<prefix, a>>

(* Map.set(key, channel of topic) *)
MapSet(map, key, topic) ==
    {e \in map : e.key # key} \cup {[key |-> key, topic |-> topic]}

subscribeToAuction(svc, a) ==
    [channels |-> MapSet(svc.channels, Key("", a), Key("auction:", a)),
     joined |-> svc.joined \cup {Key("auction:", a)}]

subscribeToAuctionStatus(svc, a) ==
    [channels |-> MapSet(svc.channels, Key("auction-status:", a),
                         Key("auction-status:", a)),
     joined |-> svc.joined \cup {Key("auction-status:", a)}]

unsubscribeFromChannel(svc, channelKey) ==
    IF \E e \in svc.channels : e.key = channelKey
    THEN LET e == CHOOSE x \in svc.channels : x.key = channelKey
         IN  [channels |-> svc.channels \ {e}, joined |-> svc.joined \ {e.topic}]
    ELSE svc

unsubscribeFromAuction(svc, a) == unsubscribeFromChannel(svc, Key("auction:", a))

(* the cleanup the effect returns: unsubscribeBids(); unsubscribeStatus() *)
EffectCleanup(svc) ==
    unsubscribeFromChannel(unsubscribeFromAuction(svc, PageId),
                           Key("auction-status:", PageId))

Fetch(by) == [pc |-> "sent", by |-> by, data |-> <<>>]

(* a further fetch can start: it adds a call, or coincides with one that is *)
(* under way at the same position                                           *)
CanFetch(f) == f \in fetches \/ Cardinality(fetches) < MaxFetches

(* one run of the effect: the cleanup of the run before, then               *)
(* fetchAuctionDetails() and the two subscriptions                          *)
useEffect ==
    /\ effect.mounted
    /\ effect.pending
    /\ CanFetch(Fetch("useEffect"))
    /\ fetches' = fetches \cup {Fetch("useEffect")}
    /\ websocketService' =
          subscribeToAuctionStatus(
             subscribeToAuction(
                IF effect.cleanup THEN EffectCleanup(websocketService)
                ELSE websocketService, PageId), PageId)
    /\ effect' = [effect EXCEPT !.pending = FALSE, !.cleanup = TRUE]
    /\ UNCHANGED <<db, page, channels, wal, lastDelivered, txn, create, delivered>>

(* fetchAuctionDetails: the server answers the two SELECTs (the auction row *)
(* does not change while the page is followed here)                         *)
fetchAuctionDetailsRead(f) ==
    /\ f \in fetches
    /\ f.pc = "sent"
    /\ fetches' = (fetches \ {f}) \cup
          {[f EXCEPT !.pc = "read",
                     !.data = <<fetchAuctionDetails(page.user, PageId)>>]}
    /\ UNCHANGED <<db, viewer, txn, create, websocketService, effect, delivered>>

(* fetchAuctionDetails: setAuction(formattedData), and for the call of      *)
(* handleBidSubmit setError(null); state set after the unmount is dropped   *)
fetchAuctionDetailsDone(f) ==
    /\ f \in fetches
    /\ f.pc = "read"
    /\ fetches' = fetches \ {f}
    /\ IF effect.mounted
       THEN /\ page' = [page EXCEPT !.auction = f.data,
                          !.error = IF f.by = "handleBidSubmit" THEN NoError ELSE @]
            /\ effect' = [effect EXCEPT !.pending = TRUE]
       ELSE UNCHANGED <<page, effect>>
    /\ UNCHANGED <<db, channels, wal, lastDelivered, txn, create,
                   websocketService, delivered>>

(* the INSERT of a bid commits: the bid callback runs if a channel of the   *)
(* bids topic is joined and the page's user may read the row, and for the   *)
(* page's own INSERT handleBidSubmit goes on with fetchAuctionDetails()     *)
CommitBidDelivered(row) ==
    /\ CommitBid(row)
    /\ LET es == IF Key("auction:", PageId) \in websocketService.joined
                 THEN BidEventsFor(page.user, PageId, row) ELSE {}
           own == effect.mounted /\ row.bidder_id = page.user
       IN  /\ delivered' = Max({delivered} \cup {e.new.amount : e \in es})
           /\ page' = IF effect.mounted /\ es # {}
                      THEN handleBidInsert(page, BidInsertPayload(row)) ELSE page
           /\ own => CanFetch(Fetch("handleBidSubmit"))
           /\ fetches' = IF own THEN fetches \cup {Fetch("handleBidSubmit")}
                         ELSE fetches
    /\ UNCHANGED <<channels, wal, lastDelivered, txn, create,
                   websocketService, effect>>

(* the page is left: the cleanup of the last run *)
Unmount ==
    /\ effect.mounted
    /\ websocketService' = IF effect.cleanup THEN EffectCleanup(websocketService)
                           ELSE websocketService
    /\ effect' = NoEffect
    /\ UNCHANGED <<db, viewer, txn, create, fetches, delivered>>

(* auction PageId exists, created by CreateAuction.handleSubmit at time 0,  *)
(* without bids; a signed-in user opens its page                            *)
MountInit ==
    /\ now = 0
    /\ products = <<"u1">>
    /\ \E d \in Durations, p \in ViewerStartPrices :
          auctions = <<AuctionRow(1, p, 0, d, "active")>>
    /\ bids = <<>>
    /\ inflight = {}
    /\ notifications = EmptyBag
    /\ \E u \in Users : page = [user |-> u, auction |-> <<>>, error |-> NoError]
    /\ channels = [bids |-> <<>>, status |-> <<>>]
    /\ wal = 0
    /\ lastDelivered = 0
    /\ txn = NoTxn
    /\ create = NoCreate
    /\ websocketService = NewWebSocketService
    /\ effect = [mounted |-> TRUE, pending |-> TRUE, cleanup |-> FALSE]
    /\ fetches = {}
    /\ delivered = 0

EffectStep == useEffect

FetchStep ==
    \E f \in fetches : fetchAuctionDetailsRead(f) \/ fetchAuctionDetailsDone(f)

MountNext ==
    \/ EffectStep
    \/ \E f \in fetches : fetchAuctionDetailsRead(f)
    \/ \E f \in fetches : fetchAuctionDetailsDone(f)
    \/ \E amt \in 1..MaxAmount :
          effect.mounted /\ handleBidSubmitForm(amt) /\ UNCHANGED stepwise
    \/ \E u \in Users, amt \in 1..MaxAmount :
          /\ u # page.user
          /\ InsertBid(u, PageId, amt)
          /\ UNCHANGED <<viewer, stepwise>>
    \/ \E row \in inflight : CommitBidDelivered(row)
    \/ Unmount

MountSpec == MountInit /\ [][MountNext]_vars

(* React runs a pending effect after the render, and a request under way is *)
(* answered                                                                 *)
MountLiveSpec ==
    /\ MountInit /\ [][MountNext]_vars
    /\ WF_vars(EffectStep)
    /\ WF_vars(FetchStep)

(* ======================== properties of the claims ====================== *)
HasBids(a) == BidsOf(a) # {}

Settled(row) == row.winner_id # NoUser /\ row.winning_bid_id # NoBid

Unsettled(row) == row.winner_id = NoUser /\ row.winning_bid_id = NoBid

(* the number of 'Auction Won!' notifications created for auction a *)
WonCount(a) ==
    LET won == {n \in BagToSet(notifications) :
                  n.title = "Auction Won!" /\ n.product_id = auctions[a].product_id}
    IN  BagCardinality([n \in won |-> CopiesIn(n, notifications)])

(* C1: the bids admitted on one auction, in admission order, are strictly   *)
(* increasing in amount (no tie and no lower bid is admitted after a higher *)
(* one).                                                                    *)
C1_AdmittedStrictlyIncreasing ==
    \A i, j \in DOMAIN bids :
        (i < j /\ bids[i].auction_id = bids[j].auction_id)
            => bids[i].amount < bids[j].amount

C6_NoBidAtOrAfterEndTime ==
    \A b \in Range(bids) \cup inflight :
        b.created_at < auctions[b.auction_id].end_time

(* C6 witness: the deadline has passed, the status is still 'active', and   *)
(* the auction holds a bid admitted at the last instant before end_time.    *)
C6_Witness ==
    \E a \in AuctionIds :
        /\ auctions[a].status = "active"
        /\ now >= auctions[a].end_time
        /\ \E b \in BidsOf(a) : b.created_at + 1 = auctions[a].end_time

PublishedBy(a, st, wid) ==
    AfterUpdate(a, auctions[a], [auctions[a] EXCEPT !.status = st], wid, now).evs

SettlementStep(a, wid) ==
    /\ notifications' # notifications
    /\ \E st \in auction_status : UpdateAuctionWith(a, st, wid)

(* the bid of a of maximal amount, then earliest created_at, then least id *)
FirstHighest(a) ==
    CHOOSE b \in BidsOf(a) :
        \A c \in BidsOf(a) :
            \/ c.amount < b.amount
            \/ c.amount = b.amount /\ b.created_at < c.created_at
            \/ c.amount = b.amount /\ b.created_at = c.created_at /\ b.id <= c.id

SellerOf(a) == products[auctions[a].product_id]

(* C12: no persisted bid was placed by the seller of the auction's product. *)
C12_NoSelfBid ==
    \A b \in Range(bids) : b.bidder_id # SellerOf(b.auction_id)

(* C13: a submission whose amount does not exceed the highest amount        *)
(* already accepted on the auction, whoever placed it, is not admitted.     *)
C13_LowBidRejected ==
    [][\A r \in inflight' \ inflight :
          \A c \in BidsOf(r.auction_id) : c.amount < r.amount]_vars

(* the legal changes of the status column *)
LegalTransitions ==
    {<<"draft", "active">>, <<"active", "ended">>,
     <<"draft", "cancelled">>, <<"active", "cancelled">>}

C15_DueAuctionEventuallyEnds ==
    \A a \in 1..MaxAuctions :
        (a \in AuctionIds /\ auctions[a].status = "active"
            /\ now >= auctions[a].end_time)
          ~> (a \in AuctionIds /\ auctions[a].status = "ended")

(* C17: a persisted bid is never updated or deleted by a user's statement:  *)
(* every row of bids stays in the table with its auction, bidder, amount    *)
(* and creation time, so the bids of an auction only grow.                  *)
C17_BidsAppendOnly ==
    [][\A i \in DOMAIN bids : i \in DOMAIN bids' /\ bids'[i] = bids[i]]_vars

(* C17 witness: two persisted bids of different users on one auction, at a  *)
(* time after the first was created (UPDATE and DELETE statements on them   *)
(* were possible in between).                                               *)
C17_Witness ==
    \E i, j \in DOMAIN bids :
        /\ i < j
        /\ bids[i].auction_id = bids[j].auction_id
        /\ bids[i].bidder_id # bids[j].bidder_id
        /\ bids[i].created_at < now

C14_OnlyActiveAuctionAdmits ==
    [][/\ \A r \in inflight' \ inflight :
             /\ r.auction_id \in AuctionIds
             /\ auctions[r.auction_id].status = "active"
       /\ \A amt \in 1..MaxAmount :
             (handleBidSubmitForm(amt) /\ auctions[PageId].status # "active")
                 => /\ bids' = bids
                    /\ inflight' = inflight
                    /\ page'.error # NoError]_vars

(* C14 witness: the page of a draft auction shows the error of an INSERT    *)
(* the policy refused, and no bid exists.                                   *)
C14_Witness ==
    /\ page.error = "new row violates row-level security policy"
    /\ auctions[PageId].status = "draft"
    /\ bids = <<>>
    /\ inflight = {}

C22_StatusEventReplayIdempotent ==
    [][onStatusChange
          => /\ db' = db
             /\ handleStatusChange(handleStatusChange(page, Head(channels.status).payload),
                                   Head(channels.status).payload) = page']_vars

(* C22 witness: the page shows 'ended' for an auction without any bid       *)
(* (nothing was fetched again), after the event active -> ended reached it. *)
C22_Witness ==
    /\ lastDelivered # 0
    /\ page.auction # <<>>
    /\ page.auction[1].status = "ended"
    /\ bids = <<>>
    /\ inflight = {}

(* C30: after a status event is handled the page shows the new status the   *)
(* event carries, whichever transition it reports.                          *)
C30_PageShowsEventStatus ==
    [][onStatusChange
          => (page'.auction # <<>>
                => page'.auction[1].status = Head(channels.status).payload.new_status)]_vars

C24_BidAtLeastStartPrice ==
    \A b \in Range(bids) \cup inflight :
        b.amount >= auctions[b.auction_id].start_price

(* C25: processing one INSERT or UPDATE of an auction row terminates: the   *)
(* chain of trigger-fired updates reaches a point where no further update   *)
(* is issued and the write commits; no statement ends by exhausting the     *)
(* stack.                                                                   *)
C25_ChainQuiesces == txn.outcome # "stack depth limit exceeded"

(* the products no auction row refers to *)
OrphanProducts ==
    {p \in DOMAIN products : \A a \in AuctionIds : auctions[a].product_id # p}

(* C29: a failed CreateAuction leaves persisted state unchanged: when       *)
(* handleSubmit is over, whether it succeeded or failed, no product row     *)
(* remains without an auction.                                              *)
C29_NoOrphanProduct == create.pc = "idle" => OrphanProducts = {}

(* C26: the unsubscribe function returned by subscribeToAuction removes    *)
(* the channel of that call: when every subscribe has been matched by its   *)
(* unsubscribe (no cleanup is outstanding) the service's Map is empty and   *)
(* no channel of the bids topic is joined, so no bid callback fires.        *)
C26_UnsubscribeRemovesChannel ==
    ~effect.cleanup =>
        /\ websocketService.channels = {}
        /\ Key("auction:", PageId) \notin websocketService.joined

(* C27: with the snapshot fetch and the bid events interleaved in any way,  *)
(* the highest_bid the mounted page shows is never lower than the amount of *)
(* a bid event already delivered to it.                                     *)
C27_HighestBidCoversDelivered ==
    (effect.mounted /\ page.auction # <<>>)
        => page.auction[1].highest_bid >= delivered

(* C28: after the page is mounted the subscribe-and-fetch effect quiesces:  *)
(* from some point on no run of the effect is pending and no fetch is under *)
(* way.                                                                     *)
C28_EffectQuiesces == <>[](~effect.pending /\ fetches = {})

====
